---- MODULE Spec2Model ----
(***************************************************************************)
(* Platepar (RMS/Formats/Platepar.py): the plate-parameter object, its      *)
(* distortion-type management, the astrometry fit and its persistence.     *)
(*                                                                         *)
(* The object is modelled as its attribute dictionary pp (Python's          *)
(* self.__dict__): a function from the names of the attributes that exist  *)
(* to their values.  loadFromDict replaces the whole dictionary, so the    *)
(* set of attributes is part of the state.                                 *)
(*                                                                         *)
(* Encoding of values:                                                     *)
(*   - floats are fixed-point integers in thousandths (1.0 is 1000);        *)
(*     vignetting_coeff is in millionths (0.001 is 1000);                   *)
(*   - a value that may be None is Some(v) = <<v>> or None = <<>>;          *)
(*   - a coefficient vector is <<kind, seq>> with kind "ndarray" or "list"; *)
(*   - time is <<"int", 0, 0, 0>> (the constructor's 0),                    *)
(*     <<"datetime", day, second, millisecond>> or <<"str", ...>> (a        *)
(*     document's own time field);                                         *)
(*   - JD counts milliseconds-like ticks (see jd2Date).                     *)
(* A call's outcome is [d |-> dictionary after, exc |-> exception name or  *)
(* "", ret |-> returned value].                                            *)
(***************************************************************************)
EXTENDS Integers, Sequences, FiniteSets, TLC

VARIABLES pp, disk, op, ret, nops

vars == <<pp, disk, op, ret, nops>>

(***************************************************************************)
(* Bounds of the model.                                                    *)
(***************************************************************************)
MaxOps == 2

MaxPairs == 13

(***************************************************************************)
(* Python helpers: attribute dictionary, None.                             *)
(***************************************************************************)
None == <<>>

Some(v) == <<v>>

Has(d, k) == k \in DOMAIN d

Put(d, k, v) == [x \in (DOMAIN d) \cup {k} |-> IF x = k THEN v ELSE d[x]]

Del(d, k) == [x \in (DOMAIN d) \ {k} |-> d[x]]

HasAll(d, ks) == ks \subseteq DOMAIN d

Ok(d) == [d |-> d, exc |-> "", ret |-> "None"]

Raise(d, e) == [d |-> d, exc |-> e, ret |-> "None"]

(***************************************************************************)
(* Distortion parameters.                                                  *)
(***************************************************************************)
PolyLen == 12

CentreOffset == 500

distortion_type_list == <<"poly3+radial", "radial3", "radial5", "radial7">>

ValidTypes == {distortion_type_list[i] : i \in 1..Len(distortion_type_list)}

zeros == [i \in 1..PolyLen |-> 0]

ndarray(s) == <<"ndarray", s>>

SetItem(v, i, x) == <<v[1], [v[2] EXCEPT ![i] = x]>>

ResetFwdZero(d) ==
    LET z  == ndarray(zeros)
        c  == SetItem(z, 1, CentreOffset)
        d1 == Put(Put(Put(Put(d, "x_poly_fwd", z), "y_poly_fwd", z),
                      "x_poly_rev", c), "y_poly_rev", c)
    IN  Put(Put(d1, "x_poly", z), "y_poly", z)

resetDistortionParameters(d) ==
    LET z  == ndarray(zeros)
        c  == SetItem(z, 1, CentreOffset)
        d1 == Put(Put(Put(Put(d, "x_poly_fwd", c), "y_poly_fwd", c),
                      "x_poly_rev", c), "y_poly_rev", c)
    IN  \* x_poly and y_poly are the forward arrays themselves (same objects)
        Put(Put(d1, "x_poly", c), "y_poly", c)

SetTypeAlwaysReset(d, distortion_type, reset_params) ==
    LET d1 == Put(d, "distortion_type_list", distortion_type_list)
    IN  IF distortion_type \in ValidTypes
        THEN Ok(resetDistortionParameters(Put(d1, "distortion_type", distortion_type)))
        ELSE Raise(d1, "ValueError")

setDistortionType(d, distortion_type, reset_params) ==
    LET d1 == Put(d, "distortion_type_list", distortion_type_list)
    IN  IF distortion_type \in ValidTypes
        THEN LET d2 == Put(d1, "distortion_type", distortion_type)
             IN  Ok(IF reset_params THEN resetDistortionParameters(d2) ELSE d2)
        ELSE \* the message formats self.distortion_type
             IF Has(d1, "distortion_type")
             THEN Raise(d1, "ValueError")
             ELSE Raise(d1, "AttributeError")

(***************************************************************************)
(* Vignetting coefficient.                                                 *)
(***************************************************************************)
RECURSIVE SqrtSearch(_, _, _)
SqrtSearch(n, lo, hi) ==
    IF lo = hi THEN lo
    ELSE LET mid == (lo + hi + 1) \div 2
         IN  IF mid * mid <= n THEN SqrtSearch(n, mid, hi)
             ELSE SqrtSearch(n, lo, mid - 1)

\* np.hypot in tenths of a pixel
hypot(x, y) == SqrtSearch((x * x + y * y) * 100, 0, 46340)

\* the float inf (a division of a positive numpy float by zero)
inf == 2147483647

\* 0.001*np.hypot(1280, 720)/np.hypot(X_res, Y_res), in millionths
VignettingDefault(X_res, Y_res) ==
    IF hypot(X_res, Y_res) = 0 THEN inf
    ELSE (1000 * hypot(1280, 720)) \div hypot(X_res, Y_res)

Truthy(flag) == flag = Some(TRUE)

AddVignettingAlways(d, use_flat) ==
    IF Truthy(use_flat) THEN Ok(Put(d, "vignetting_coeff", Some(0)))
    ELSE IF ~HasAll(d, {"X_res", "Y_res"}) THEN Raise(d, "AttributeError")
    ELSE Ok(Put(d, "vignetting_coeff",
                Some(VignettingDefault(d["X_res"], d["Y_res"]))))

addVignettingCoeff(d, use_flat) ==
    IF ~Has(d, "vignetting_coeff") THEN Raise(d, "AttributeError")
    ELSE IF d["vignetting_coeff"] = None
    THEN IF Truthy(use_flat) THEN Ok(Put(d, "vignetting_coeff", Some(0)))
         ELSE IF ~HasAll(d, {"X_res", "Y_res"}) THEN Raise(d, "AttributeError")
         ELSE Ok(Put(d, "vignetting_coeff",
                     Some(VignettingDefault(d["X_res"], d["Y_res"]))))
    ELSE Ok(d)

(***************************************************************************)
(* Construction.                                                           *)
(***************************************************************************)
Platepar(distortion_type) ==
    LET d0 == [version |-> 2, distortion_type |-> distortion_type]
        d1 == setDistortionType(d0, distortion_type, TRUE).d
        d2 == [lat |-> 0, lon |-> 0, elev |-> 0,
               time |-> <<"int", 0, 0, 0>>, JD |-> 0, UT_corr |-> 0,
               Ho |-> 0, X_res |-> 0, Y_res |-> 0, focal_length |-> 0,
               fov_h |-> 0, fov_v |-> 0,
               RA_d |-> 0, RA_H |-> 0, RA_M |-> 0, RA_S |-> 0,
               dec_d |-> 0, dec_D |-> 0, dec_M |-> 0, dec_S |-> 0,
               pos_angle_ref |-> 0, rotation_from_horiz |-> 0,
               az_centre |-> 0, alt_centre |-> 0,
               F_scale |-> 1000,
               mag_0 |-> -2500, mag_lev |-> 1000, mag_lev_stddev |-> 0,
               gamma |-> 1000, vignetting_coeff |-> Some(0),
               station_code |-> None, star_list |-> None,
               auto_check_fit_refined |-> FALSE, auto_recalibrated |-> FALSE]
        d3 == [k \in (DOMAIN d1) \cup (DOMAIN d2) |->
                  IF k \in DOMAIN d2 THEN d2[k] ELSE d1[k]]
    IN  resetDistortionParameters(d3)

(***************************************************************************)
(* Time utilities (RMS.Astrometry.Conversions): a Julian date is a count   *)
(* of ticks, two ticks to the second and four seconds to the day.          *)
(***************************************************************************)
jd2Date(jd) == <<"datetime", jd \div 8, (jd % 8) \div 2, jd % 2>>

date2JD(day, s) == day * 8 + s * 2

datetime(day, s) == <<"datetime", day, s, 0>>

\* Coordinate Transform Provider: rotation of the image w.r.t. the horizon,
\* a pure function of the populated model
rotationWrtHorizon(d) == (d["pos_angle_ref"] + d["RA_d"] + d["JD"]) % 360000

\* altitude and azimuth of the field centre
raDec2AltAz(JD, lon, lat, RA_d, dec_d) ==
    <<(RA_d + lon + JD) % 360000, (dec_d + lat) % 90000>>

(***************************************************************************)
(* Structured documents (the dictionaries json.loads returns).             *)
(***************************************************************************)
list(s) == <<"list", s>>

asarray(v) == <<"ndarray", v[2]>>

tolist(v) == <<"list", v[2]>>

DocVec(k) == list([i \in 1..PolyLen |-> k * (13 - i)])

Merge(d, e) == [k \in (DOMAIN d) \cup (DOMAIN e) |->
                   IF k \in DOMAIN e THEN e[k] ELSE d[k]]

Without(d, ks) == [k \in (DOMAIN d) \ ks |-> d[k]]

JDs == {21, 38}

Resolutions == {<<1280, 720>>, <<1920, 1080>>, <<0, 0>>}

\* the fifteen fields of a version-1 document
V1Doc(jd, res) ==
    [lon |-> 16000, lat |-> 45000, elev |-> 90000, JD |-> jd,
     X_res |-> res[1], Y_res |-> res[2], focal_length |-> 4000,
     RA_d |-> 120000, dec_d |-> 30000, pos_angle_ref |-> 10000,
     F_scale |-> 20000, mag_0 |-> -2000, mag_lev |-> 9000,
     x_poly |-> DocVec(5), y_poly |-> DocVec(6)]

DocStar(jd) == <<jd, 100, 200, 3000, 120500, 30500, 4000>>

\* a document with every field jsonStr writes
FullDoc(dt, vig, jd) ==
    Merge(V1Doc(jd, <<1280, 720>>),
    [version |-> 2, distortion_type |-> dt,
     distortion_type_list |-> distortion_type_list,
     UT_corr |-> 1000, Ho |-> 7000, fov_h |-> 64000, fov_v |-> 35000,
     RA_H |-> 8, RA_M |-> 0, RA_S |-> 0,
     dec_D |-> 30, dec_M |-> 0, dec_S |-> 0,
     rotation_from_horiz |-> 3000, az_centre |-> 5000, alt_centre |-> 6000,
     mag_lev_stddev |-> 100, gamma |-> 900, vignetting_coeff |-> vig,
     station_code |-> Some("HR0001"), star_list |-> Some(<<DocStar(jd)>>),
     auto_check_fit_refined |-> TRUE, auto_recalibrated |-> TRUE,
     x_poly_fwd |-> DocVec(1), y_poly_fwd |-> DocVec(2),
     x_poly_rev |-> DocVec(3), y_poly_rev |-> DocVec(4)])

BaseDoc == FullDoc("poly3+radial", Some(1500), 21)

OptionalKeys ==
    {{"version"}, {"distortion_type"}, {"UT_corr"}, {"gamma"},
     {"vignetting_coeff"}, {"star_list"}, {"rotation_from_horiz"},
     {"x_poly_fwd", "y_poly_fwd", "x_poly_rev", "y_poly_rev"},
     {"x_poly", "y_poly"}, {"JD"}}

DocTypes == ValidTypes \cup {"radial9"}

DocVignettings == {None, Some(0), Some(1500), Some(-1500)}

Docs ==
    {V1Doc(jd, res) : jd \in JDs, res \in Resolutions}
    \cup {FullDoc(dt, Some(1500), 21) : dt \in DocTypes}
    \cup {FullDoc("poly3+radial", vig, 21) : vig \in DocVignettings}
    \cup {Without(BaseDoc, ks) : ks \in OptionalKeys}
    \cup {Put(BaseDoc, "time", <<"str", 0, 0, 0>>),
          Without(V1Doc(21, <<1280, 720>>), {"x_poly", "y_poly"}),
          Without(V1Doc(21, <<1280, 720>>), {"y_poly"})}

(***************************************************************************)
(* loadFromDict.                                                           *)
(***************************************************************************)
Then(o, F(_)) == IF o.exc # "" THEN o ELSE F(o.d)

Default(d, k, v) == IF Has(d, k) THEN d ELSE Put(d, k, v)

\* self.<k> = np.array(self.<from>)
ArrayFrom(d, k, from) ==
    IF Has(d, from) THEN Ok(Put(d, k, asarray(d[from])))
    ELSE Raise(d, "AttributeError")

LoadVignetting(d, use_flat) ==
    IF Has(d, "vignetting_coeff") THEN Ok(d)
    ELSE addVignettingCoeff(Put(d, "vignetting_coeff", None), use_flat)

LoadLegacyPolyForwardOnly(d) ==
    IF Has(d, "x_poly_fwd") THEN Ok(d)
    ELSE Then(ArrayFrom(d, "x_poly_fwd", "x_poly"),
              LAMBDA e : ArrayFrom(e, "y_poly_fwd", "y_poly"))

LoadLegacyPoly(d) ==
    IF Has(d, "x_poly_fwd") THEN Ok(d)
    ELSE Then(Then(Then(ArrayFrom(d, "x_poly_fwd", "x_poly"),
              LAMBDA e : ArrayFrom(e, "x_poly_rev", "x_poly")),
              LAMBDA e : ArrayFrom(e, "y_poly_fwd", "y_poly")),
              LAMBDA e : ArrayFrom(e, "y_poly_rev", "y_poly"))

LoadArrays(d) ==
    Then(Then(Then(ArrayFrom(d, "x_poly_fwd", "x_poly_fwd"),
         LAMBDA e : ArrayFrom(e, "x_poly_rev", "x_poly_rev")),
         LAMBDA e : ArrayFrom(e, "y_poly_fwd", "y_poly_fwd")),
         LAMBDA e : ArrayFrom(e, "y_poly_rev", "y_poly_rev"))

LoadRotation(d) ==
    IF Has(d, "rotation_from_horiz") THEN Ok(d)
    ELSE IF HasAll(d, {"pos_angle_ref", "RA_d", "JD"})
    THEN Ok(Put(d, "rotation_from_horiz", rotationWrtHorizon(d)))
    ELSE Raise(d, "AttributeError")

LoadTimeKeep(d) ==
    IF ~Has(d, "JD") THEN Raise(d, "AttributeError")
    ELSE Ok(Default(d, "time", jd2Date(d["JD"])))

LoadTime(d) ==
    IF Has(d, "JD") THEN Ok(Put(d, "time", jd2Date(d["JD"])))
    ELSE Raise(d, "AttributeError")

loadFromDict(platepar_dict, use_flat) ==
    LET d1 == Default(platepar_dict, "version", 1)
        \* the check for the misspelt key tests the same key again
        d2 == Default(d1, "distortion_type", "poly3+radial")
        o3 == setDistortionType(d2, d2["distortion_type"], FALSE)
        o5 == Then(o3, LAMBDA d : Ok(Default(Default(d, "UT_corr", 0),
                                             "gamma", 1000)))
        o6 == Then(o5, LAMBDA d : LoadVignetting(d, use_flat))
        o7 == Then(o6, LAMBDA d : Ok(Default(d, "star_list", Some(<<>>))))
        o8 == Then(o7, LoadLegacyPoly)
        o9 == Then(o8, LoadArrays)
        o10 == Then(o9, LAMBDA d : Ok(Put(Put(d, "x_poly", d["x_poly_fwd"]),
                                          "y_poly", d["y_poly_fwd"])))
        o11 == Then(o10, LoadRotation)
    IN  Then(o11, LoadTime)

(***************************************************************************)
(* fitAstrometry.  The minimiser (scipy.optimize.minimize, Nelder-Mead) is *)
(* external: its result is the start point moved by a step the environment *)
(* chooses (step 0: the search ends where it started).  The four residual  *)
(* functions work on a deep copy of the model and leave the model alone.   *)
(***************************************************************************)
FitSteps == {0, 1}

PairCounts == {0, 12} \cup (13..MaxPairs)

ImgStar(i) == <<10 * i, 20 * i, 1000 + i>>

CatStar(i) == <<100 * i, 50 * i, 3000 + i>>

\* res.x of the rigid fit started at p0
MinimizeAstro(p0, step) ==
    <<p0[1] + step, p0[2] + 2 * step, p0[3] + 3 * step, p0[4] + 4 * step>>

\* _calcImageResidualsDistortion: the reverse vector of the other axis in the
\* copy the residual evaluates (np.zeros(12), whatever the model holds)
ImageResidualLive(d, dimension) ==
    IF dimension = "x" THEN d["y_poly_rev"] ELSE d["x_poly_rev"]

ImageResidualOther(d, dimension) == ndarray(zeros)

\* _calcSkyResidualsDistortion: the forward vector of the other axis in the
\* copy the residual evaluates (the one the model holds at the time of the fit)
SkyResidualOther(d, dimension) ==
    IF dimension = "x" THEN d["y_poly_fwd"] ELSE d["x_poly_fwd"]

\* res.x of a distortion fit started at x0: axis "x" or "y", mapping "rev" or
\* "fwd"; other is the vector of the other axis the residual evaluates with
MinimizeDistortion(x0, step, axis, mapping, other) ==
    LET k == (IF axis = "x" THEN 1 ELSE 2) + (IF mapping = "rev" THEN 0 ELSE 2)
    IN  ndarray([i \in 1..Len(x0[2]) |->
                    x0[2][i] + step * (10 * k + i + other[2][1])])

AllFitTypes == ValidTypes

PolyTypes == {"poly3+radial"}

FitsAtLeastTwelve(n) == n >= 12

\* len(img_stars) > 12
FitsDistortion(n) == n > 12

FitReads ==
    {"RA_d", "dec_d", "pos_angle_ref", "F_scale", "distortion_type",
     "x_poly_fwd", "y_poly_fwd", "x_poly_rev", "y_poly_rev",
     "X_res", "Y_res"}

\* the reverse mapping fit
FitReverse(d, step) ==
    LET d1 == Put(d, "x_poly_rev",
                  MinimizeDistortion(d["x_poly_rev"], step, "x", "rev",
                                     ImageResidualOther(d, "x")))
    IN  IF d1["distortion_type"] \in PolyTypes
        THEN Put(d1, "y_poly_rev",
                 MinimizeDistortion(d1["y_poly_rev"], step, "y", "rev",
                                    ImageResidualOther(d1, "y")))
        ELSE d1

InitForwardNoInvert(d) ==
    Put(Put(d, "x_poly_fwd", asarray(d["x_poly_rev"])),
        "y_poly_fwd", asarray(d["y_poly_rev"]))

\* first fit: the forward parameters start from the reverse ones
InitForward(d) ==
    LET x == asarray(d["x_poly_rev"])
        y == asarray(d["y_poly_rev"])
    IN  Put(Put(d, "x_poly_fwd", SetItem(x, 1, x[2][1] * (-1))),
            "y_poly_fwd", SetItem(y, 1, y[2][1] * (-1)))

\* the forward mapping fit
FitForward(d, step) ==
    LET d1 == Put(d, "x_poly_fwd",
                  MinimizeDistortion(d["x_poly_fwd"], step, "x", "fwd",
                                     SkyResidualOther(d, "x")))
    IN  IF d1["distortion_type"] \in PolyTypes
        THEN Put(d1, "y_poly_fwd",
                 MinimizeDistortion(d1["y_poly_fwd"], step, "y", "fwd",
                                    SkyResidualOther(d1, "y")))
        ELSE d1

FitDistortion(d, n, first_platepar_fit, step) ==
    IF FitsDistortion(n)
    THEN LET d1 == FitReverse(d, step)
             d2 == IF first_platepar_fit THEN InitForward(d1) ELSE d1
         IN  FitForward(d2, step)
    ELSE d

FitStarList(jd, n) == [i \in 1..n |-> <<jd>> \o ImgStar(i) \o CatStar(i)]

FitProvenanceOwnJD(d, jd, n) ==
    Put(Put(Put(d, "star_list", Some(FitStarList(d["JD"], n))),
            "auto_check_fit_refined", FALSE), "auto_recalibrated", FALSE)

FitProvenance(d, jd, n) ==
    Put(Put(Put(d, "star_list", Some(FitStarList(jd, n))),
            "auto_check_fit_refined", FALSE), "auto_recalibrated", FALSE)

fitAstrometrySetsJD(d, jd, n, first_platepar_fit, step) ==
    IF ~HasAll(d, FitReads \cup {"JD", "lon", "lat"}) THEN Raise(d, "AttributeError")
    ELSE
    LET res == MinimizeAstro(<<d["RA_d"], d["dec_d"], d["pos_angle_ref"],
                               d["F_scale"]>>, step)
        d1  == Put(Put(Put(Put(Put(d, "RA_d", res[1]), "dec_d", res[2]),
                           "pos_angle_ref", res[3]), "F_scale", res[4]), "JD", jd)
        c   == raDec2AltAz(jd, d1["lon"], d1["lat"], d1["RA_d"], d1["dec_d"])
        d2  == Put(Put(d1, "az_centre", c[1]), "alt_centre", c[2])
    IN  Ok(FitProvenance(FitDistortion(d2, n, first_platepar_fit, step), jd, n))

fitAstrometry(d, jd, n, first_platepar_fit, step) ==
    IF ~HasAll(d, FitReads) THEN Raise(d, "AttributeError")
    ELSE
    LET p0  == <<d["RA_d"], d["dec_d"], d["pos_angle_ref"], d["F_scale"]>>
        res == MinimizeAstro(p0, step)
        d1  == Put(Put(Put(Put(d, "RA_d", res[1]), "dec_d", res[2]),
                       "pos_angle_ref", res[3]), "F_scale", res[4])
    IN  IF ~HasAll(d1, {"JD", "lon", "lat"}) THEN Raise(d1, "AttributeError")
        ELSE
        LET c  == raDec2AltAz(d1["JD"], d1["lon"], d1["lat"],
                              d1["RA_d"], d1["dec_d"])
            d2 == Put(Put(d1, "az_centre", c[1]), "alt_centre", c[2])
            d3 == FitDistortion(d2, n, first_platepar_fit, step)
        IN  Ok(FitProvenance(d3, jd, n))

(***************************************************************************)
(* Persistence.  A file is NoFile, [kind |-> "json", doc |-> dictionary],  *)
(* [kind |-> "txt", ...the lines of the CMN format...] or                  *)
(* [kind |-> "garbage"] (neither JSON nor a complete CMN file).            *)
(* json.dumps followed by json.loads returns the dictionary it was given   *)
(* (None, booleans, numbers, strings and lists survive unchanged).         *)
(***************************************************************************)
NoFile == [kind |-> "none"]

Garbage == [kind |-> "garbage"]

JsonFile(doc) == [kind |-> "json", doc |-> doc]

\* int(a/b) for b > 0: truncation towards zero
Trunc(a, b) == IF a >= 0 THEN a \div b ELSE -((-a) \div b)

\* a/b rounded to the nearest unit, b > 0
RoundDiv(a, b) == (2 * a + b) \div (2 * b)

\* self.x_poly_fwd.tolist(): only a numpy array has tolist
ToListOf(d, k) ==
    IF Has(d, k) /\ d[k][1] = "ndarray" THEN Ok(Put(d, k, tolist(d[k])))
    ELSE Raise(d, "AttributeError")

\* the dictionary jsonStr serialises, or the exception it raises
jsonStr(d) ==
    LET o1 == Then(Then(Then(ToListOf(d, "x_poly_fwd"),
                   LAMBDA e : ToListOf(e, "x_poly_rev")),
                   LAMBDA e : ToListOf(e, "y_poly_fwd")),
                   LAMBDA e : ToListOf(e, "y_poly_rev"))
        o2 == Then(o1, LAMBDA e : IF Has(e, "time") THEN Ok(Del(e, "time"))
                                  ELSE Raise(e, "AttributeError"))
    IN  Then(o2, LAMBDA e : Ok(Put(Put(e, "x_poly", e["x_poly_fwd"]),
                                   "y_poly", e["y_poly_fwd"])))

TxtHeadReads == {"lon", "lat", "elev", "JD", "X_res", "Y_res", "focal_length", "RA_d"}

TxtTailReads ==
    {"pos_angle_ref", "F_scale", "mag_0", "mag_lev", "x_poly_fwd", "y_poly_fwd",
     "station_code"}

WriteRA(d) ==
    LET h == Trunc(d["RA_d"], 15000)
        r == (d["RA_d"] - 15000 * h) * 4
        m == Trunc(r, 1000)
    IN  Put(Put(Put(d, "RA_H", h), "RA_M", m), "RA_S", Trunc((r - 1000 * m) * 60, 1000))

WriteDec(d) ==
    LET g == Trunc(d["dec_d"], 1000)
        r == (d["dec_d"] - 1000 * g) * 60
        m == Trunc(r, 1000)
    IN  Put(Put(Put(d, "dec_D", g), "dec_M", m), "dec_S", Trunc((r - 1000 * m) * 60, 1000))

\* str(self.station_code)
StationStr(c) == IF c = None THEN "None" ELSE c[1]

TxtLinesReverse(d) ==
    [kind |-> "txt",
     lon |-> d["lon"], lat |-> d["lat"], elev |-> Trunc(d["elev"], 1000),
     day |-> jd2Date(d["JD"])[2], sec |-> jd2Date(d["JD"])[3],
     X_res |-> d["X_res"], Y_res |-> d["Y_res"], focal_length |-> d["focal_length"],
     RA_d |-> d["RA_d"], RA_H |-> d["RA_H"], RA_M |-> d["RA_M"], RA_S |-> d["RA_S"],
     dec_d |-> d["dec_d"], dec_D |-> d["dec_D"], dec_M |-> d["dec_M"],
     dec_S |-> d["dec_S"],
     pos_angle_ref |-> d["pos_angle_ref"],
     scale |-> RoundDiv(36000000, d["F_scale"]),
     mag_0 |-> d["mag_0"], mag_lev |-> d["mag_lev"],
     x |-> d["x_poly_rev"][2], y |-> d["y_poly_rev"][2],
     station_code |-> StationStr(d["station_code"])]

\* the lines of the CMN file: the scale in tenths of arcsec/px
TxtLines(d) ==
    [kind |-> "txt",
     lon |-> d["lon"], lat |-> d["lat"], elev |-> Trunc(d["elev"], 1000),
     day |-> jd2Date(d["JD"])[2], sec |-> jd2Date(d["JD"])[3],
     X_res |-> d["X_res"], Y_res |-> d["Y_res"], focal_length |-> d["focal_length"],
     RA_d |-> d["RA_d"], RA_H |-> d["RA_H"], RA_M |-> d["RA_M"], RA_S |-> d["RA_S"],
     dec_d |-> d["dec_d"], dec_D |-> d["dec_D"], dec_M |-> d["dec_M"],
     dec_S |-> d["dec_S"],
     pos_angle_ref |-> d["pos_angle_ref"],
     scale |-> RoundDiv(36000000, d["F_scale"]),
     mag_0 |-> d["mag_0"], mag_lev |-> d["mag_lev"],
     x |-> d["x_poly_fwd"][2], y |-> d["y_poly_fwd"][2],
     station_code |-> StationStr(d["station_code"])]

Written(d, dk, exc, r) == [d |-> d, disk |-> dk, exc |-> exc, ret |-> r]

\* the CMN branch of write: the file is opened (emptied) first
writeTxt(d, dk, file_path, ret_written) ==
    LET cut == [dk EXCEPT ![file_path] = Garbage]
    IN  IF ~HasAll(d, TxtHeadReads) THEN Written(d, cut, "AttributeError", "None")
        ELSE
        LET d1 == WriteRA(d)
        IN  IF ~Has(d1, "dec_d") THEN Written(d1, cut, "AttributeError", "None")
            ELSE
            LET d2 == WriteDec(d1)
            IN  IF ~HasAll(d2, TxtTailReads)
                THEN Written(d2, cut, "AttributeError", "None")
                ELSE IF d2["F_scale"] = 0
                THEN Written(d2, cut, "ZeroDivisionError", "None")
                ELSE Written(d2, [dk EXCEPT ![file_path] = TxtLines(d2)], "",
                             IF ret_written THEN "txt+str" ELSE "txt")

write(d, dk, file_path, fmt, fov, ret_written) ==
    LET d1 == IF fov # None
              THEN Put(Put(d, "fov_h", fov[1][1]), "fov_v", fov[1][2])
              ELSE d
        f  == IF fmt = None THEN Some("json") ELSE fmt
    IN  IF f = Some("json")
        THEN LET o == jsonStr(d1)
             IN  IF o.exc # "" THEN Written(d1, dk, o.exc, "None")
                 ELSE Written(d1, [dk EXCEPT ![file_path] = JsonFile(o.d)], "",
                              IF ret_written THEN "json+str" ELSE "json")
        ELSE writeTxt(d1, dk, file_path, ret_written)

\* (self.JD-referenced) hour angle of the CMN format
HourAngle(JD) == (280460 + 360985 * JD) % 360000

\* both names are bound to the same array, which the loop fills
ReadTxtPoly(d, f) ==
    Put(Put(Put(Put(d, "x_poly_fwd", ndarray(f.x)), "x_poly_rev", ndarray(f.x)),
            "y_poly_fwd", ndarray(f.y)), "y_poly_rev", ndarray(f.y))

\* the CMN branch of read (parseLine(f)[0] as under Python 2, where map returns a list)
readTxt(d, f) ==
    LET d0 == Put(Put(Put(d, "UT_corr", 0), "gamma", 1000), "star_list", Some(<<>>))
    IN  IF f.kind # "txt" THEN Raise(d0, "ValueError")
        ELSE
        LET jd == date2JD(f.day, f.sec)
            d1 == Merge(d0,
                    [lon |-> f.lon, lat |-> f.lat, elev |-> f.elev * 1000,
                     time |-> datetime(f.day, f.sec), JD |-> jd, Ho |-> HourAngle(jd),
                     X_res |-> f.X_res, Y_res |-> f.Y_res,
                     focal_length |-> f.focal_length,
                     RA_d |-> f.RA_d, RA_H |-> f.RA_H, RA_M |-> f.RA_M, RA_S |-> f.RA_S,
                     dec_d |-> f.dec_d, dec_D |-> f.dec_D, dec_M |-> f.dec_M,
                     dec_S |-> f.dec_S, pos_angle_ref |-> f.pos_angle_ref])
        IN  IF f.scale = 0 THEN Raise(d1, "ZeroDivisionError")
            ELSE
            LET d2 == Merge(d1, [F_scale |-> RoundDiv(36000000, f.scale),
                                 mag_0 |-> f.mag_0, mag_lev |-> f.mag_lev])
            IN  Ok(Put(ReadTxtPoly(d2, f), "station_code", Some(f.station_code)))

Returning(o, r) == IF o.exc # "" THEN o ELSE [o EXCEPT !.ret = r]

ReadMissingRaises(d) == Raise(d, "IOError")

\* os.path.isfile(file_name) is false
ReadMissing(d) == Returning(Ok(d), "False")

read(d, dk, file_name, fmt, use_flat) ==
    LET f == dk[file_name]
    IN  IF f = NoFile THEN ReadMissing(d)
        ELSE
        LET g == IF fmt # None THEN fmt
                 ELSE IF f.kind = "json" THEN Some("json") ELSE Some("txt")
            o == IF g = Some("json")
                 THEN IF f.kind = "json" THEN loadFromDict(f.doc, use_flat)
                      ELSE Raise(d, "ValueError")
                 ELSE readTxt(d, f)
        IN  Returning(Then(o, LAMBDA e : addVignettingCoeff(e, use_flat)), g[1])

(***************************************************************************)
(* The files the model starts with, and the calls' arguments.              *)
(***************************************************************************)
LegacyFile ==
    [kind |-> "txt", lon |-> 15000, lat |-> 44000, elev |-> 120,
     day |-> 3, sec |-> 2, X_res |-> 720, Y_res |-> 576, focal_length |-> 6000,
     RA_d |-> 200000, RA_H |-> 13, RA_M |-> 20, RA_S |-> 0,
     dec_d |-> 40000, dec_D |-> 40, dec_M |-> 0, dec_S |-> 0,
     pos_angle_ref |-> 5000, scale |-> 1800, mag_0 |-> -3000, mag_lev |-> 8000,
     x |-> DocVec(7)[2], y |-> DocVec(8)[2], station_code |-> "HR0002"]

Paths == {"v1.json", "legacy.cal", "garbage.cal", "absent.cal", "out.cal"}

WritePaths == {"out.cal"}

InitialDisk ==
    [p \in Paths |->
        CASE p = "v1.json"     -> JsonFile(V1Doc(38, <<1920, 1080>>))
          [] p = "legacy.cal"  -> LegacyFile
          [] p = "garbage.cal" -> Garbage
          [] OTHER             -> NoFile]

Flags == {None, Some(TRUE), Some(FALSE)}

Formats == {None, Some("json"), Some("txt")}

Fovs == {None, Some(<<60000, 40000>>)}

FitJDs == {55}

\* use_flat is read only when the document has no vignetting_coeff
LoadFlags(doc) == IF Has(doc, "vignetting_coeff") THEN {None} ELSE Flags

RetWritten == {FALSE}

Outcome(o) == [exc |-> o.exc, val |-> o.ret]

(***************************************************************************)
(* State machine: one action per method of Platepar.                       *)
(***************************************************************************)
Init ==
    /\ \E t \in ValidTypes : pp = Platepar(t) /\ op = <<"Platepar", t>>
    /\ disk = InitialDisk
    /\ ret = [exc |-> "", val |-> "None"]
    /\ nops = 0

SetDistortionType ==
    /\ nops < MaxOps
    /\ \E name \in DocTypes, reset_params \in BOOLEAN :
          LET o == setDistortionType(pp, name, reset_params)
          IN  /\ pp' = o.d
              /\ ret' = Outcome(o)
              /\ op' = <<"setDistortionType", name, reset_params>>
    /\ nops' = nops + 1
    /\ UNCHANGED disk

AddVignettingCoeff ==
    /\ nops < MaxOps
    /\ \E use_flat \in Flags :
          LET o == addVignettingCoeff(pp, use_flat)
          IN  /\ pp' = o.d
              /\ ret' = Outcome(o)
              /\ op' = <<"addVignettingCoeff", use_flat>>
    /\ nops' = nops + 1
    /\ UNCHANGED disk

FitAstrometry ==
    /\ nops < MaxOps
    /\ \E jd \in FitJDs, n \in PairCounts, first \in BOOLEAN, step \in FitSteps :
          LET o == fitAstrometry(pp, jd, n, first, step)
          IN  /\ pp' = o.d
              /\ ret' = Outcome(o)
              /\ op' = <<"fitAstrometry", jd, n, first>>
    /\ nops' = nops + 1
    /\ UNCHANGED disk

LoadFromDict ==
    /\ nops < MaxOps
    /\ \E doc \in Docs : \E use_flat \in LoadFlags(doc) :
          LET o == loadFromDict(doc, use_flat)
          IN  /\ pp' = o.d
              /\ ret' = Outcome(o)
              /\ op' = <<"loadFromDict", doc>>
    /\ nops' = nops + 1
    /\ UNCHANGED disk

Read ==
    /\ nops < MaxOps
    /\ \E file_name \in Paths, fmt \in Formats, use_flat \in Flags :
          LET o == read(pp, disk, file_name, fmt, use_flat)
          IN  /\ pp' = o.d
              /\ ret' = Outcome(o)
              /\ op' = <<"read", file_name, fmt>>
    /\ nops' = nops + 1
    /\ UNCHANGED disk

Write ==
    /\ nops < MaxOps
    /\ \E file_path \in WritePaths, fmt \in Formats, fov \in Fovs,
          ret_written \in RetWritten :
          LET o == write(pp, disk, file_path, fmt, fov, ret_written)
          IN  /\ pp' = o.d
              /\ disk' = o.disk
              /\ ret' = Outcome(o)
              /\ op' = <<"write", file_path, fmt>>
    /\ nops' = nops + 1

Next ==
    \/ SetDistortionType
    \/ AddVignettingCoeff
    \/ FitAstrometry
    \/ LoadFromDict
    \/ Read
    \/ Write

Spec == Init /\ [][Next]_vars

(***************************************************************************)
(* Properties.                                                             *)
(***************************************************************************)
VecKeys == {"x_poly_fwd", "y_poly_fwd", "x_poly_rev", "y_poly_rev"}

Vectors(d) == [k \in VecKeys \cap DOMAIN d |-> d[k]]

IsCall(o, name) == o[1] = name

Returned(r) == r.exc = ""

AfterReset(o) ==
    IsCall(o, "setDistortionType") /\ o[2] \in ValidTypes /\ o[3] = TRUE

\* C1 as stated: after setDistortionType(name, resetParams=true) with a valid
\* name all four vectors have length 12 and every entry is zero except index 0
\* of each reverse vector, which is 0.5 (so index 0 of the forward vectors is 0).
C1_OnlyReverseOffset ==
    AfterReset(op) =>
        /\ \A k \in VecKeys : Len(pp[k][2]) = 12
        /\ \A k \in VecKeys : \A i \in 2..12 : pp[k][2][i] = 0
        /\ pp["x_poly_rev"][2][1] = 500 /\ pp["y_poly_rev"][2][1] = 500
        /\ pp["x_poly_fwd"][2][1] = 0 /\ pp["y_poly_fwd"][2][1] = 0

\* C1 amended: after setDistortionType(name, resetParams=true) with a valid
\* name, from any prior state, the call returns, the name is active, all four
\* vectors have length 12 and every entry is zero except index 0 of each of
\* the four vectors (forward and reverse), which is 0.5.
C1_ResetDefaults ==
    AfterReset(op) =>
        /\ Returned(ret)
        /\ pp["distortion_type"] = op[2]
        /\ \A k \in VecKeys :
              /\ Len(pp[k][2]) = 12
              /\ pp[k][2][1] = 500
              /\ \A i \in 2..12 : pp[k][2][i] = 0

\* a reset that follows the load of a document with other coefficients
C1_Witness ==
    /\ AfterReset(op)
    /\ nops = 2
    /\ Has(pp, "JD") /\ pp["JD"] = 21 /\ pp["gamma"] = 900
    /\ pp["x_poly_rev"][2][1] = 500

FitGate(o) == IsCall(o, "fitAstrometry") /\ o[3] <= 12

WrittenJson == write(pp, disk, "out.cal", Some("json"), None, FALSE)

\* the state after reading out.cal back
ReadBack(fmt, use_flat) == read(WrittenJson.d, WrittenJson.disk, "out.cal", fmt, use_flat)

Derived == {"time", "x_poly", "y_poly"}

\* C2: in every reachable state in which the structured write succeeds, the
\* read that follows (format given or detected, any flat flag) returns "json"
\* and reproduces every field with identical values (the legacy alias fields
\* x_poly/y_poly aside), except time, which equals the calendar conversion of JD.
C2_RoundTrip ==
    Returned(WrittenJson) =>
        \A fmt \in {None, Some("json")}, use_flat \in Flags :
            LET r == ReadBack(fmt, use_flat)
            IN  /\ Returned(r) /\ r.ret = "json"
                /\ Without(r.d, Derived) = Without(pp, Derived)
                /\ r.d["time"] = jd2Date(r.d["JD"])

V1Keys ==
    {"lon", "lat", "elev", "JD", "X_res", "Y_res", "focal_length", "RA_d", "dec_d",
     "pos_angle_ref", "F_scale", "mag_0", "mag_lev", "x_poly", "y_poly"}

IsV1Load(o) == IsCall(o, "loadFromDict") /\ DOMAIN o[2] = V1Keys

\* C4: loadFromDict on a document holding only the fifteen version-1 fields
\* returns and yields version 1, distortion type "poly3+radial", UT_corr 0,
\* gamma 1.0, an empty star list, forward and reverse vectors both equal to the
\* document's x_poly (y_poly), and a vignetting coefficient that is not None,
\* whatever flat flag is passed.
C4_VersionDefaulting ==
    IsV1Load(op) =>
        /\ Returned(ret)
        /\ pp["version"] = 1
        /\ pp["distortion_type"] = "poly3+radial"
        /\ pp["UT_corr"] = 0
        /\ pp["gamma"] = 1000
        /\ pp["star_list"] = Some(<<>>)
        /\ pp["x_poly_fwd"][2] = op[2]["x_poly"][2]
        /\ pp["x_poly_rev"][2] = op[2]["x_poly"][2]
        /\ pp["y_poly_fwd"][2] = op[2]["y_poly"][2]
        /\ pp["y_poly_rev"][2] = op[2]["y_poly"][2]
        /\ pp["vignetting_coeff"] # None
        /\ \A use_flat \in Flags :
              LET o == loadFromDict(op[2], use_flat)
              IN  Returned(o) /\ o.d["vignetting_coeff"] # None

\* a version-1 document at 1280x720 loaded without a flat: the default
\* coefficient 0.001
C4_Witness ==
    /\ IsV1Load(op) /\ Returned(ret)
    /\ pp["vignetting_coeff"] = Some(1000)
    /\ pp["x_poly_rev"] = asarray(DocVec(5))

VigSet(d) == Has(d, "vignetting_coeff") /\ d["vignetting_coeff"] # None

\* C5: addVignettingCoeff changes nothing when the coefficient is already set;
\* after a call that returned, a second call (any flat flag) changes nothing;
\* when the coefficient is None the call sets it to 0.0 if the flat flag is
\* true and to 0.001*hypot(1280,720)/hypot(X_res,Y_res) otherwise.
C5_VignettingIdempotent ==
    [][IsCall(op', "addVignettingCoeff") =>
        /\ VigSet(pp) => pp' = pp /\ Returned(ret')
        /\ Returned(ret') =>
              \A use_flat \in Flags : addVignettingCoeff(pp', use_flat) = Ok(pp')
        /\ (Has(pp, "vignetting_coeff") /\ ~VigSet(pp) /\ Returned(ret')) =>
              /\ pp' = Put(pp, "vignetting_coeff", pp'["vignetting_coeff"])
              /\ pp'["vignetting_coeff"] =
                    IF op'[2] = Some(TRUE) THEN Some(0)
                    ELSE Some(VignettingDefault(pp["X_res"], pp["Y_res"]))
              /\ (op'[2] # Some(TRUE) /\ pp["X_res"] = 1280 /\ pp["Y_res"] = 720)
                    => pp'["vignetting_coeff"] = Some(1000)]_vars

\* the coefficient of a document that carried null, defaulted by a call
\* without a flat
C5_Witness ==
    /\ IsCall(op, "addVignettingCoeff") /\ op[2] = Some(FALSE) /\ Returned(ret)
    /\ pp["gamma"] = 900
    /\ pp["vignetting_coeff"] = Some(1000)

\* C6: in every reachable state the active distortion_type is one of the four
\* recognised names; a setDistortionType request with another name raises.
C6_ActiveTypeRecognised ==
    /\ Has(pp, "distortion_type") /\ pp["distortion_type"] \in ValidTypes
    /\ (IsCall(op, "setDistortionType") /\ op[2] \notin ValidTypes)
          => ret.exc = "ValueError"

\* C7: in every reachable state the vignetting coefficient is None or a
\* non-negative number, and no operation sets a coefficient that was not None
\* back to None.
C7_VignettingNeverUnset ==
    [][/\ Has(pp', "vignetting_coeff")
       /\ pp'["vignetting_coeff"] = None \/ pp'["vignetting_coeff"][1] >= 0
       /\ VigSet(pp) => VigSet(pp')]_vars

IsMissing(o) == IsCall(o, "read") /\ disk[o[2]] = NoFile

\* C8: read on a path that is no existing file returns False without raising
\* and leaves every field of the model as it was; a read that returns on an
\* existing file returns the format used, 'json' or 'txt', which is the format
\* requested (when one was) and the format of the file.
C8_ReadSentinel ==
    [][IsCall(op', "read") =>
        /\ disk[op'[2]] = NoFile =>
              ret' = [exc |-> "", val |-> "False"] /\ pp' = pp
        /\ (disk[op'[2]] # NoFile /\ Returned(ret')) =>
              /\ ret'.val \in {"json", "txt"}
              /\ ret'.val = disk[op'[2]].kind
              /\ op'[3] # None => ret'.val = op'[3][1]]_vars

\* a read of a missing file by a model that holds a loaded document
C8_Witness ==
    /\ IsMissing(op) /\ ret.val = "False"
    /\ nops = 2 /\ Has(pp, "JD") /\ pp["JD"] = 21 /\ pp["gamma"] = 900

\* C9: setDistortionType(name, resetParams=false) with a valid name returns,
\* leaves the four vectors untouched and changes nothing but the active name,
\* so a second such call leaves the state as the first did; a setDistortionType
\* call that changes a vector had resetParams true.
C9_PreserveCoefficients ==
    [][IsCall(op', "setDistortionType") =>
        /\ (op'[2] \in ValidTypes /\ op'[3] = FALSE) =>
              /\ Returned(ret')
              /\ Vectors(pp') = Vectors(pp)
              /\ pp' = Put(Put(pp, "distortion_type", op'[2]),
                           "distortion_type_list", distortion_type_list)
              /\ setDistortionType(pp', op'[2], FALSE) = Ok(pp')
        /\ Vectors(pp') # Vectors(pp) => op'[3] = TRUE]_vars

\* the family switched on a model that keeps the coefficients of its document
C9_Witness ==
    /\ IsCall(op, "setDistortionType") /\ op[2] = "radial5" /\ op[3] = FALSE
    /\ pp["distortion_type"] = "radial5"
    /\ HasAll(pp, VecKeys)
    /\ pp["x_poly_fwd"] = asarray(DocVec(1))
    /\ pp["y_poly_rev"] = asarray(DocVec(4))

\* C10 as stated: in every reachable state, construction included, time equals
\* the calendar conversion of JD.
C10_TimeIsCalendarOfJD ==
    HasAll(pp, {"time", "JD"}) /\ pp["time"] = jd2Date(pp["JD"])

IsLoad(o) == IsCall(o, "loadFromDict") \/ IsCall(o, "read")

TimeAndJD(d) == [k \in {"time", "JD"} \cap DOMAIN d |-> d[k]]

\* C10 amended: after every loadFromDict or read call that returns (other than
\* with False) time equals the calendar conversion of JD, also when the
\* document carries its own time field, and no other operation changes time or
\* JD; the constructor leaves both at the integer 0.
C10_LoadsSetTime ==
    [][/\ (IsLoad(op') /\ Returned(ret') /\ ret'.val # "False") =>
              pp'["time"] = jd2Date(pp'["JD"])
       /\ ~IsLoad(op') => TimeAndJD(pp') = TimeAndJD(pp)
       /\ nops = 0 => pp["time"] = <<"int", 0, 0, 0>> /\ pp["JD"] = 0]_vars

\* a document that carries its own time field, loaded
C10_Witness ==
    /\ IsCall(op, "loadFromDict") /\ Has(op[2], "time") /\ Returned(ret)
    /\ op[2]["time"] = <<"str", 0, 0, 0>>
    /\ pp["JD"] = 21
    /\ pp["time"] = <<"datetime", 2, 2, 1>>

IsFit(o) == IsCall(o, "fitAstrometry")

\* the minimiser outcome of the call that led from d to e
FitStepOf(d, e, step) == e["RA_d"] = d["RA_d"] + step

\* the reverse stage with the Y fit run before the X fit
FitReverseYFirst(d, step) ==
    LET d1 == IF d["distortion_type"] \in PolyTypes
              THEN Put(d, "y_poly_rev",
                       MinimizeDistortion(d["y_poly_rev"], step, "y", "rev",
                                          ImageResidualOther(d, "y")))
              ELSE d
    IN  Put(d1, "x_poly_rev",
            MinimizeDistortion(d1["x_poly_rev"], step, "x", "rev",
                               ImageResidualOther(d1, "x")))

\* the reverse stage with both fits run on the pre-stage snapshot
FitReverseSnapshot(d, step) ==
    LET x == MinimizeDistortion(d["x_poly_rev"], step, "x", "rev",
                                ImageResidualOther(d, "x"))
        y == IF d["distortion_type"] \in PolyTypes
             THEN MinimizeDistortion(d["y_poly_rev"], step, "y", "rev",
                                     ImageResidualOther(d, "y"))
             ELSE d["y_poly_rev"]
    IN  Put(Put(d, "x_poly_rev", x), "y_poly_rev", y)

\* the forward stage with the Y fit run before the X fit
FitForwardYFirst(d, step) ==
    LET d1 == IF d["distortion_type"] \in PolyTypes
              THEN Put(d, "y_poly_fwd",
                       MinimizeDistortion(d["y_poly_fwd"], step, "y", "fwd",
                                          SkyResidualOther(d, "y")))
              ELSE d
    IN  Put(d1, "x_poly_fwd",
            MinimizeDistortion(d1["x_poly_fwd"], step, "x", "fwd",
                               SkyResidualOther(d1, "x")))

\* the state the forward stage starts from
BeforeForward(d, first_platepar_fit, step) ==
    IF first_platepar_fit THEN InitForward(FitReverse(d, step))
    ELSE FitReverse(d, step)

\* C11 as stated: in both stages of a fitAstrometry call that fits the
\* distortion, running the Y fit before the X fit gives the same four vectors
\* as the X-then-Y order of the call.
C11_AxesIndependent ==
    [][(IsFit(op') /\ Returned(ret') /\ op'[3] > 12) =>
          \E step \in FitSteps :
              /\ FitStepOf(pp, pp', step)
              /\ Vectors(pp') =
                    Vectors(FitForwardYFirst(
                        IF op'[4] THEN InitForward(FitReverseYFirst(pp, step))
                        ELSE FitReverseYFirst(pp, step), step))]_vars

\* C11 amended: in the reverse stage the two axis fits are independent (the
\* Y-first order and the fits from the pre-stage snapshot give the reverse
\* vectors of the call); in the forward stage the X fit evaluates with the Y
\* forward vector held before the stage and the Y fit evaluates with the X
\* forward vector just fitted.
C11_ReverseAxesIndependent ==
    [][(IsFit(op') /\ Returned(ret') /\ op'[3] > 12) =>
          \E step \in FitSteps :
              LET f0 == BeforeForward(pp, op'[4], step)
              IN  /\ FitStepOf(pp, pp', step)
                  /\ pp'["x_poly_rev"] = FitReverseYFirst(pp, step)["x_poly_rev"]
                  /\ pp'["y_poly_rev"] = FitReverseYFirst(pp, step)["y_poly_rev"]
                  /\ pp'["x_poly_rev"] = FitReverseSnapshot(pp, step)["x_poly_rev"]
                  /\ pp'["y_poly_rev"] = FitReverseSnapshot(pp, step)["y_poly_rev"]
                  /\ pp'["x_poly_fwd"] =
                        MinimizeDistortion(f0["x_poly_fwd"], step, "x", "fwd",
                                           f0["y_poly_fwd"])
                  /\ pp["distortion_type"] \in PolyTypes =>
                        pp'["y_poly_fwd"] =
                            MinimizeDistortion(f0["y_poly_fwd"], step, "y", "fwd",
                                               pp'["x_poly_fwd"])]_vars

\* a 13-pair fit of a freshly constructed poly3+radial model whose minimiser
\* moved every parameter: the forward Y fit has seen the fitted forward X
C11_Witness ==
    /\ IsFit(op) /\ op[3] = 13 /\ op[4] = FALSE /\ Returned(ret)
    /\ pp["distortion_type"] = "poly3+radial"
    /\ pp["RA_d"] = 1
    /\ pp["x_poly_rev"][2][1] = 511
    /\ pp["y_poly_rev"][2][1] = 521
    /\ pp["x_poly_fwd"][2][1] = 1031
    /\ pp["y_poly_fwd"][2][1] = 1572

\* C12: after every fitAstrometry call that returns, whatever the number of
\* pairs, the star list holds the supplied pairs in order, each as
\* [jd, x, y, intensity, RA, Dec, magnitude] with the jd passed to the call,
\* and both provenance flags are false.
C12_ProvenanceUpdate ==
    [][(IsFit(op') /\ Returned(ret')) =>
          /\ pp'["star_list"] # None
          /\ Len(pp'["star_list"][1]) = op'[3]
          /\ \A i \in 1..op'[3] :
                pp'["star_list"][1][i] =
                    <<op'[2], ImgStar(i)[1], ImgStar(i)[2], ImgStar(i)[3],
                      CatStar(i)[1], CatStar(i)[2], CatStar(i)[3]>>
          /\ pp'["auto_check_fit_refined"] = FALSE
          /\ pp'["auto_recalibrated"] = FALSE]_vars

\* a 12-pair fit of a model loaded from a document that carried its own star
\* and both flags set
C12_Witness ==
    /\ IsFit(op) /\ op[3] = 12 /\ Returned(ret)
    /\ pp["JD"] = 21 /\ pp["gamma"] = 900
    /\ pp["star_list"][1][12] = <<55, 120, 240, 1012, 1200, 600, 3012>>
    /\ ~pp["auto_recalibrated"]

Negated(v) == SetItem(asarray(v), 1, v[2][1] * (-1))

\* C13: in a fitAstrometry call with firstFit true and at least 13 pairs the
\* forward fit of each axis starts from a copy of the reverse vector fitted in
\* the same call with the sign of its index-0 coefficient inverted, and the
\* reverse vectors stay as the reverse stage left them; with firstFit false
\* the forward fit starts from the forward vectors held before the call.
C13_FirstFitInitialisation ==
    [][(IsFit(op') /\ Returned(ret') /\ op'[3] > 12) =>
          \E step \in FitSteps :
              LET x0 == IF op'[4] THEN Negated(pp'["x_poly_rev"]) ELSE pp["x_poly_fwd"]
                  y0 == IF op'[4] THEN Negated(pp'["y_poly_rev"]) ELSE pp["y_poly_fwd"]
              IN  /\ FitStepOf(pp, pp', step)
                  /\ pp'["x_poly_rev"] = FitReverse(pp, step)["x_poly_rev"]
                  /\ pp'["y_poly_rev"] = FitReverse(pp, step)["y_poly_rev"]
                  /\ pp'["x_poly_fwd"] =
                        MinimizeDistortion(x0, step, "x", "fwd", y0)
                  /\ pp["distortion_type"] \in PolyTypes =>
                        pp'["y_poly_fwd"] =
                            MinimizeDistortion(y0, step, "y", "fwd", pp'["x_poly_fwd"])
                  /\ step = 0 => pp'["x_poly_fwd"][2] = x0[2]]_vars

\* a first fit with 13 pairs of a freshly constructed poly3+radial model: the
\* forward X vector comes from the inverted fitted reverse one
C13_Witness ==
    /\ IsFit(op) /\ op[3] = 13 /\ op[4] = TRUE /\ Returned(ret)
    /\ pp["distortion_type"] = "poly3+radial"
    /\ pp["RA_d"] = 1
    /\ pp["x_poly_rev"][2][1] = 511
    /\ pp["x_poly_fwd"][2][1] = -1001

\* C14: a fitAstrometry call with at least 13 pairs and firstFit false on a
\* purely radial family leaves y_poly_rev and y_poly_fwd as they were; on
\* "poly3+radial" both Y vectors are replaced by the results of their fits.
C14_RadialSkipsY ==
    [][(IsFit(op') /\ Returned(ret') /\ op'[3] > 12 /\ ~op'[4]) =>
          /\ pp["distortion_type"] \in {"radial3", "radial5", "radial7"} =>
                /\ pp'["y_poly_rev"] = pp["y_poly_rev"]
                /\ pp'["y_poly_fwd"] = pp["y_poly_fwd"]
          /\ pp["distortion_type"] = "poly3+radial" =>
                \E step \in FitSteps :
                    /\ FitStepOf(pp, pp', step)
                    /\ pp'["y_poly_rev"] =
                          MinimizeDistortion(pp["y_poly_rev"], step, "y", "rev",
                                             ndarray(zeros))
                    /\ pp'["y_poly_fwd"] =
                          MinimizeDistortion(pp["y_poly_fwd"], step, "y", "fwd",
                                             pp'["x_poly_fwd"])]_vars

\* a 13-pair fit of a loaded radial5 model whose X vectors moved and whose Y
\* vectors are those of the document
C14_Witness ==
    /\ IsFit(op) /\ op[3] = 13 /\ op[4] = FALSE /\ Returned(ret)
    /\ pp["distortion_type"] = "radial5"
    /\ pp["x_poly_rev"] # asarray(DocVec(3))
    /\ pp["x_poly_fwd"] # asarray(DocVec(1))
    /\ pp["y_poly_rev"] = asarray(DocVec(4))
    /\ pp["y_poly_fwd"] = asarray(DocVec(2))

IsTxtWrite(o) == IsCall(o, "write") /\ o[3] = Some("txt")

IsTxtRead(o, r) == IsCall(o, "read") /\ r.val = "txt"

\* C15: write in legacy format emits the 12 X reverse coefficients and then
\* the 12 Y reverse coefficients, and read in legacy format sets the forward
\* and the reverse vector of each axis to the 12 values read for that axis.
C15_LegacyCarriesReverse ==
    [][/\ (IsTxtWrite(op') /\ Returned(ret')) =>
              /\ disk'[op'[2]].x = pp["x_poly_rev"][2]
              /\ disk'[op'[2]].y = pp["y_poly_rev"][2]
       /\ (IsTxtRead(op', ret') /\ Returned(ret')) =>
              /\ pp'["x_poly_fwd"][2] = disk[op'[2]].x
              /\ pp'["x_poly_rev"][2] = disk[op'[2]].x
              /\ pp'["y_poly_fwd"][2] = disk[op'[2]].y
              /\ pp'["y_poly_rev"][2] = disk[op'[2]].y]_vars

\* C15 amended: write in legacy format emits the 12 X forward coefficients
\* and then the 12 Y forward coefficients (the reverse vectors are not
\* written), and read in legacy format sets the forward and the reverse vector
\* of each axis to the 12 values read for that axis.
C15_LegacyCarriesForward ==
    [][/\ (IsTxtWrite(op') /\ Returned(ret')) =>
              /\ disk'[op'[2]].x = pp["x_poly_fwd"][2]
              /\ disk'[op'[2]].y = pp["y_poly_fwd"][2]
              /\ Len(disk'[op'[2]].x) = 12 /\ Len(disk'[op'[2]].y) = 12
       /\ (IsTxtRead(op', ret') /\ Returned(ret')) =>
              /\ pp'["x_poly_fwd"][2] = disk[op'[2]].x
              /\ pp'["x_poly_rev"][2] = disk[op'[2]].x
              /\ pp'["y_poly_fwd"][2] = disk[op'[2]].y
              /\ pp'["y_poly_rev"][2] = disk[op'[2]].y]_vars

\* a legacy file written by a model whose forward and reverse vectors differ
C15_Witness ==
    /\ IsTxtWrite(op) /\ Returned(ret)
    /\ disk["out.cal"].x = pp["x_poly_fwd"][2]
    /\ disk["out.cal"].y = pp["y_poly_fwd"][2]
    /\ pp["x_poly_fwd"][2] # pp["x_poly_rev"][2]
    /\ pp["y_poly_fwd"][2] # pp["y_poly_rev"][2]

FitWrites ==
    {"RA_d", "dec_d", "pos_angle_ref", "F_scale", "az_centre", "alt_centre",
     "x_poly_fwd", "y_poly_fwd", "x_poly_rev", "y_poly_rev",
     "star_list", "auto_check_fit_refined", "auto_recalibrated"}

\* C16: a fitAstrometry call changes nothing but RA_d, dec_d, pos_angle_ref,
\* F_scale, az_centre, alt_centre, the four distortion vectors, the star list
\* and the two provenance flags; in particular JD and time are not replaced by
\* the jd argument.
C16_FitFrame ==
    [][IsFit(op') =>
          /\ Without(pp', FitWrites) = Without(pp, FitWrites)
          /\ disk' = disk]_vars

\* a fit with jd 55 of a model loaded from a document of JD 21
C16_Witness ==
    /\ IsFit(op) /\ op[2] = 55 /\ op[3] = 13 /\ Returned(ret)
    /\ pp["JD"] = 21 /\ pp["time"] = jd2Date(21)
    /\ pp["UT_corr"] = 1000 /\ pp["lon"] = 16000 /\ pp["version"] = 2
    /\ pp["RA_d"] = 120001

====
